---- MODULE Spec2Model ----
(***************************************************************************)
(* A model of pynexe: the configuration model (BuilderConfig), the build   *)
(* pipeline (Builder) and the command line driver (PyNexeCLI).             *)
(*                                                                         *)
(* The filesystem is a set of existing paths, an external process is a     *)
(* nondeterministic outcome (exit zero, exit non-zero, interrupted while   *)
(* it runs), and a KeyboardInterrupt may also arrive between two calls.    *)
(***************************************************************************)
EXTENDS Naturals, Sequences, FiniteSets, TLC

VARIABLES
    doc,          \* what is stored at config_path: NoFile or the parsed YAML value
    config,       \* BuilderConfig.config of the constructed configuration, or Unset
    fs,           \* the paths that exist on the filesystem
    locked,       \* the paths whose removal fails (permission, open handle), now and
                  \* when it is tried again at once
    temp_dir,     \* Builder._temp_dir
    venv_path,    \* Builder._venv_path
    python_exe,   \* Builder._python_exe
    tmpCount,     \* how many scratch directories tempfile.mkdtemp has created
    mode,         \* the entry point that drives the pipeline
    pc,           \* the position of the driver
    variant,      \* the Install variant running: "silent" or "callback"
    depIdx,       \* how many iterations of the Install loop have been completed
    procLog,      \* the external process invocations issued, in order
    cbLog,        \* the progress observer invocations, in order, each with the number
                  \* of process invocations issued before it
    cleanupLog,   \* one entry per cleanup() invocation: the filesystem it left
    exc,          \* the exception raised by the last operation, or NoException
    narration,    \* the closing messages printed so far
    exitStatus,   \* "running", "returned", "exit1" or "uncaught"
    calls         \* how many operations of the Builder its caller has invoked one by one

vars == <<doc, config, fs, locked, temp_dir, venv_path, python_exe, tmpCount, mode,
          pc, variant, depIdx, procLog, cbLog, cleanupLog, exc, narration, exitStatus,
          calls>>

session == <<temp_dir, venv_path, python_exe>>

(***************************************************************************)
(* Bounds of the model.                                                    *)
(***************************************************************************)
\* the longest project_libs list a document declares
MaxLibs == 2
\* the most paths whose removal fails
MaxLocked == 1
\* the most calls a caller of the stage operations makes
MaxCalls == 3
\* the longest cleanup_items list a document declares
MaxItems == 2
\* the most characters of an include_data_dirs entry
MaxEntry == 5
\* the longest include_data_dirs list a document declares
MaxDataDirs == 2

(***************************************************************************)
(* YAML values and Python truthiness.                                      *)
(***************************************************************************)
Str(s) == [t |-> "str", v |-> s]
List(q) == [t |-> "list", v |-> q]
Map(f) == [t |-> "map", v |-> f]
Null == [t |-> "null"]
NoFile == [t |-> "nofile"]
Unset == [t |-> "unset"]
None == "None"

Truthy(val) ==
    CASE val.t = "null" -> FALSE
      [] val.t = "str" -> val.v # ""
      [] val.t = "list" -> val.v # <<>>
      [] val.t = "map" -> DOMAIN val.v # {}

NoException == [type |-> "none", detail |-> <<>>]
Exception(type, detail) == [type |-> type, detail |-> detail]

\* all sequences over S of length at most n
BSeq(S, n) == UNION {[1..k -> S] : k \in 0..n}

(***************************************************************************)
(* BuilderConfig                                                           *)
(***************************************************************************)
\* dict.get(key, default)
Get(cfg, key, default) == IF key \in DOMAIN cfg.v THEN cfg.v[key] ELSE default

\* _load_config: the parsed document, or FileNotFoundError
_load_config(d) ==
    IF d = NoFile
    THEN [exc |-> Exception("FileNotFoundError", <<"config_path">>), config |-> Unset]
    ELSE [exc |-> NoException, config |-> d]

required_fields == <<"project_name", "main_file", "output_name">>

\* a faulty variant of the loop of _validate_config that accepts an empty string
missing_fields_empty_ok(cfg) ==
    SelectSeq(required_fields,
              LAMBDA field : field \notin DOMAIN cfg.v \/ cfg.v[field].t = "null")

\* the loop of _validate_config: the required fields that are missing or falsy
missing_fields(cfg) ==
    SelectSeq(required_fields, LAMBDA field : field \notin DOMAIN cfg.v \/ ~Truthy(cfg.v[field]))

\* _validate_config: `field not in self.config` on a document that parsed to None
\* is a TypeError; otherwise ValueError naming the missing fields, or nothing
_validate_config(cfg) ==
    IF cfg.t # "map"
    THEN Exception("TypeError", <<"argument of type 'NoneType' is not iterable">>)
    ELSE IF missing_fields(cfg) # <<>>
         THEN Exception("ValueError", missing_fields(cfg))
         ELSE NoException

\* BuilderConfig.__init__: _load_config, then _validate_config
BuilderConfig(d) ==
    LET loaded == _load_config(d) IN
    IF loaded.exc # NoException THEN loaded
    ELSE LET e == _validate_config(loaded.config) IN
         IF e # NoException THEN [exc |-> e, config |-> Unset]
         ELSE [exc |-> NoException, config |-> loaded.config]

project_name(cfg) == cfg.v["project_name"].v
main_file(cfg) == cfg.v["main_file"].v
output_name(cfg) == cfg.v["output_name"].v
build_libs(cfg) == Get(cfg, "build_libs", List(<<"nuitka", "ordered-set">>))
project_libs(cfg) == Get(cfg, "project_libs", List(<<>>))

include_packages(cfg) == Get(cfg, "include_packages", List(<<>>))
include_data_dirs(cfg) == Get(cfg, "include_data_dirs", List(<<>>))
icon_file(cfg) == Get(cfg, "icon_file", Null)
windows_metadata(cfg) ==
    Get(cfg, "windows_metadata",
        Map([product_name |-> "Windows System Manager",
             file_description |-> "System Configuration Manager",
             product_version |-> "10.0.19041.1",
             file_version |-> "10.0.19041.1",
             copyright |-> "Microsoft Corporation",
             company_name |-> "Microsoft Corporation"]))
nuitka_plugins(cfg) == Get(cfg, "nuitka_plugins", List(<<"upx", "no-qt", "tk-inter">>))
nuitka_extra_args(cfg) ==
    Get(cfg, "nuitka_extra_args", List(<<"--lto=no", "--show-scons", "--jobs=1">>))

base_items(cfg) ==
    << project_name(cfg) \o ".build",
       project_name(cfg) \o ".dist",
       project_name(cfg) \o ".onefile-build",
       "__pycache__" >>

\* a faulty variant of cleanup_items that puts the custom paths first
cleanup_items_custom_first(cfg) == Get(cfg, "cleanup_items", List(<<>>)).v \o base_items(cfg)

\* `base_items + custom_items`
cleanup_items(cfg) == base_items(cfg) \o Get(cfg, "cleanup_items", List(<<>>)).v

(***************************************************************************)
(* The filesystem and the external toolchain.                              *)
(***************************************************************************)
ProjectName == "app"
MainFile == "main.py"
OutputFile == "app.exe"
ExtraItem == "build.log"

\* tempfile.mkdtemp(prefix="build_"): a name no earlier call returned
TempName(n) == "build_" \o ToString(n)

\* os.path.isdir: the entry point, the executable and the log are regular files
RegularFiles == {MainFile, OutputFile, ExtraItem}
isdir(p) == p \notin RegularFiles

\* how a blocking subprocess.run ends: exit zero, exit non-zero, or a
\* KeyboardInterrupt delivered while it is blocked
ProcOutcomes == {"ok", "fail", "interrupted"}

\* what the compiling backend may leave behind: nothing, its build directory, or all
\* of its working directories
BackendArtifacts ==
    {ProjectName \o ".build", ProjectName \o ".dist", ProjectName \o ".onefile-build"}
ArtifactChoices == {{}, {ProjectName \o ".build"}, BackendArtifacts}

Invocation(tool, arg, out) == [tool |-> tool, arg |-> arg, out |-> out]

KeyboardInterrupt == Exception("KeyboardInterrupt", <<>>)

\* a faulty variant of the return code checks that lets a non-zero exit pass
RaisedBy_ignoring_failure(out, failure) ==
    IF out = "interrupted" THEN KeyboardInterrupt ELSE NoException

\* the exception a finished subprocess makes its caller raise
RaisedBy(out, failure) ==
    CASE out = "ok" -> NoException
      [] out = "fail" -> failure
      [] out = "interrupted" -> KeyboardInterrupt

(***************************************************************************)
(* Builder.cleanup                                                         *)
(***************************************************************************)
\* a faulty variant of rmtree that removes nothing
rmtree_nothing(f, p) == f

\* shutil.rmtree(path, ignore_errors=True): never raises
rmtree(f, p) == IF p \in locked THEN f ELSE f \ {p}

\* os.remove(path): raises OSError when the removal fails
os_remove(f, p) ==
    IF p \in locked
    THEN [fs |-> f, exc |-> Exception("OSError", <<p>>)]
    ELSE [fs |-> f \ {p}, exc |-> NoException]

\* a faulty variant of the except clause of cleanup that lets the failure through
except_nothing(e) == e

\* `except (OSError, PermissionError): pass`
except_OSError(e) == IF e.type \in {"OSError", "PermissionError"} THEN NoException ELSE e

\* one iteration of the loop of cleanup over cleanup_items
cleanup_item(st, item) ==
    IF item \notin st.fs THEN st
    ELSE IF isdir(item)
         THEN [st EXCEPT !.fs = rmtree(st.fs, item), !.attempted = @ \cup {item}]
         ELSE [st EXCEPT !.fs = os_remove(st.fs, item).fs,
                         !.attempted = @ \cup {item},
                         !.exc = except_OSError(os_remove(st.fs, item).exc)]

\* a faulty variant of the loop of cleanup that stops after the first path it found
RECURSIVE cleanup_loop_break(_, _)
cleanup_loop_break(st, items) ==
    IF items = <<>> \/ st.exc # NoException THEN st
    ELSE IF Head(items) \in st.fs THEN cleanup_item(st, Head(items))
    ELSE cleanup_loop_break(st, Tail(items))

\* the loop of cleanup over cleanup_items
RECURSIVE cleanup_loop(_, _)
cleanup_loop(st, items) ==
    IF items = <<>> \/ st.exc # NoException THEN st
    ELSE cleanup_loop(cleanup_item(st, Head(items)), Tail(items))

\* a faulty variant of cleanup that leaves the scratch directory alone
cleanup_temp_dir_kept(st, tdir) == st

\* the removal of the scratch directory that ends cleanup
cleanup_temp_dir(st, tdir) ==
    IF st.exc # NoException THEN st
    ELSE IF tdir # None /\ tdir \in st.fs
         THEN [st EXCEPT !.fs = rmtree(st.fs, tdir), !.attempted = @ \cup {tdir}]
         ELSE st

\* cleanup() run on filesystem f: the filesystem it leaves, the paths whose removal
\* it attempted, and the exception it raises, if any
cleanup(f, cfg, tdir) ==
    cleanup_temp_dir(
        cleanup_loop([fs |-> f, attempted |-> {}, exc |-> NoException], cleanup_items(cfg)),
        tdir)

(***************************************************************************)
(* Control flow: where a stage operation leaves its caller.                *)
(*   mode "build":  Builder.build() runs the stages inside its try block   *)
(*   mode "run":    PyNexeCLI.build_project runs them inside its own       *)
(*   mode "direct": a caller invokes the stage operations one by one       *)
(***************************************************************************)
\* `total_deps = len(config.build_libs) + len(config.project_libs)` of build_project
total_deps == Len(build_libs(config).v) + Len(project_libs(config).v)

\* a faulty variant of NextAfter, for build(), that runs the backend a second time
NextAfter_backend_again(stage) ==
    CASE stage = "provision" -> "install"
      [] stage = "install" -> "compile"
      [] stage = "compile" ->
            IF \E i \in 1..Len(procLog) : procLog[i].tool = "nuitka"
            THEN "cleanup" ELSE "compile"
      [] stage = "cleanup" -> "report"

\* the position after `stage` has returned normally
NextAfter(stage) ==
    CASE mode = "direct" -> "idle"
      [] mode = "build" ->
            (CASE stage = "provision" -> "install"
               [] stage = "install" -> "compile"
               [] stage = "compile" -> "cleanup"
               [] stage = "cleanup" -> "report")
      [] mode = "run" ->
            (CASE stage = "provision" -> IF total_deps > 0 THEN "install" ELSE "compile"
               [] stage = "install" -> "compile"
               [] stage = "compile" -> "cleanup"
               [] stage = "cleanup" -> "report")

\* a faulty variant of After that goes on to the next stage after a failure
After_failure_ignored(stage, e) == NextAfter(stage)

\* the position after an operation has ended and raised e (NoException: returned)
After(stage, e) ==
    IF e = NoException THEN NextAfter(stage)
    ELSE IF mode = "direct" THEN "idle" ELSE "except"

(***************************************************************************)
(* Builder.create_temp_env                                                 *)
(***************************************************************************)
\* Path(self._temp_dir) / "venv"
VenvPath(tdir) == tdir \o "/venv"

\* self._venv_path / "bin" / "python" (on Windows: "Scripts" / "python.exe")
PythonExe(tdir) == VenvPath(tdir) \o "/bin/python"

\* a faulty variant of create_temp_env that records the interpreter before it has
\* checked the exit code of the provisioner
python_exe_unchecked(out, tdir) == PythonExe(tdir)

\* self._python_exe when create_temp_env ends: assigned only after the provisioner
\* has exited zero
python_exe_after(out, tdir) == IF out = "ok" THEN PythonExe(tdir) ELSE python_exe

create_temp_env ==
    /\ pc = "provision"
    /\ \E out \in ProcOutcomes :
        LET tdir == TempName(tmpCount + 1)
            e == RaisedBy(out, Exception("RuntimeError",
                                         <<"Failed to create virtual environment">>))
        IN
        /\ tmpCount' = tmpCount + 1
        /\ fs' = fs \cup {tdir}
        /\ temp_dir' = tdir
        /\ venv_path' = VenvPath(tdir)
        /\ procLog' = Append(procLog, Invocation("venv", <<VenvPath(tdir)>>, out))
        /\ python_exe' = python_exe_after(out, tdir)
        /\ exc' = e
        /\ pc' = After("provision", e)
    /\ UNCHANGED <<calls, doc, config, locked, mode, variant, depIdx, cbLog, cleanupLog,
                   narration, exitStatus>>

(***************************************************************************)
(* Builder.install_dependencies, install_dependencies_with_callback and    *)
(* _install_single_dependency                                              *)
(***************************************************************************)
\* the packages install_dependencies iterates over, in order
silent_deps(cfg) ==
    build_libs(cfg).v \o (IF Truthy(project_libs(cfg)) THEN project_libs(cfg).v ELSE <<>>)

\* a faulty variant of all_deps that puts the project's libraries first
all_deps_project_first(cfg) == project_libs(cfg).v \o build_libs(cfg).v

\* `list(self.config.build_libs) + list(self.config.project_libs)`
all_deps(cfg) == build_libs(cfg).v \o project_libs(cfg).v

\* list(None) raises TypeError
all_deps_raises(cfg) == project_libs(cfg).t # "list"

deps_of(v, cfg) == IF v = "silent" THEN silent_deps(cfg) ELSE all_deps(cfg)

\* how the progress observer may end
CallbackOutcomes == {"ok", "raises"}

\* one iteration of the Install loop: the observer (callback variant), then
\* _install_single_dependency
install_step ==
    /\ pc = "install"
    /\ ~(variant = "callback" /\ all_deps_raises(config))
    /\ depIdx < Len(deps_of(variant, config))
    /\ \E cb \in CallbackOutcomes, out \in ProcOutcomes :
        LET deps == deps_of(variant, config)
            dep == deps[depIdx + 1]
            called == variant = "callback"
            cbRaised == called /\ cb = "raises"
            \* subprocess.run cannot start the program "None"
            noExe == python_exe = None
            e == IF cbRaised THEN Exception("CallbackError", <<dep>>)
                 ELSE IF noExe
                 THEN Exception("FileNotFoundError", <<"No such file or directory", None>>)
                 ELSE RaisedBy(out, Exception("RuntimeError", <<"Failed to install", dep>>))
        IN
        /\ (~called => cb = "ok")
        /\ (cbRaised \/ noExe => out = "ok")
        /\ cbLog' = IF called
                    THEN Append(cbLog, [dep |-> dep, index |-> depIdx + 1, total |-> Len(deps),
                                        issued |-> Len(procLog)])
                    ELSE cbLog
        /\ procLog' = IF cbRaised \/ noExe THEN procLog
                      ELSE Append(procLog, Invocation("pip", <<dep>>, out))
        /\ exc' = e
        /\ depIdx' = IF e = NoException THEN depIdx + 1 ELSE 0
        /\ pc' = IF e = NoException THEN "install" ELSE After("install", e)
    /\ UNCHANGED <<calls, doc, config, fs, locked, session, tmpCount, mode, variant, cleanupLog,
                   narration, exitStatus>>

\* the loop is exhausted: the Install operation returns
install_return ==
    /\ pc = "install"
    /\ ~(variant = "callback" /\ all_deps_raises(config))
    /\ depIdx = Len(deps_of(variant, config))
    /\ depIdx' = 0
    /\ exc' = NoException
    /\ pc' = After("install", NoException)
    /\ UNCHANGED <<calls, doc, config, fs, locked, session, tmpCount, mode, variant, procLog, cbLog,
                   cleanupLog, narration, exitStatus>>

\* install_dependencies_with_callback on a project_libs that is present and null:
\* list(None) raises TypeError before the loop
install_type_error ==
    /\ pc = "install"
    /\ variant = "callback"
    /\ all_deps_raises(config)
    /\ exc' = Exception("TypeError", <<"'NoneType' object is not iterable">>)
    /\ pc' = After("install", exc')
    /\ depIdx' = 0
    /\ UNCHANGED <<calls, doc, config, fs, locked, session, tmpCount, mode, variant, procLog, cbLog,
                   cleanupLog, narration, exitStatus>>

(***************************************************************************)
(* Data directory entries. An entry of include_data_dirs is a string, here *)
(* the sequence of its characters; a path is the string they spell.        *)
(***************************************************************************)
RECURSIVE Spell(_)
Spell(chars) == IF chars = <<>> THEN "" ELSE Head(chars) \o Spell(Tail(chars))

\* `"=" in data_dir`
HasEq(chars) == \E i \in 1..Len(chars) : chars[i] = "="

\* the index of the first "=" of chars
FirstEq(chars) == CHOOSE i \in 1..Len(chars) : chars[i] = "=" /\ \A j \in 1..(i - 1) : chars[j] # "="

\* a faulty variant of split_once that splits at the last "="
split_at_last(chars) ==
    LET last == CHOOSE i \in 1..Len(chars) :
                    chars[i] = "=" /\ \A j \in (i + 1)..Len(chars) : chars[j] # "="
    IN IF HasEq(chars)
       THEN <<SubSeq(chars, 1, last - 1), SubSeq(chars, last + 1, Len(chars))>>
       ELSE <<chars>>

\* data_dir.split("=", 1)
split_once(chars) ==
    IF HasEq(chars)
    THEN <<SubSeq(chars, 1, FirstEq(chars) - 1), SubSeq(chars, FirstEq(chars) + 1, Len(chars))>>
    ELSE <<chars>>

\* data_dir.split("=")
RECURSIVE split_all(_)
split_all(chars) ==
    IF HasEq(chars)
    THEN <<SubSeq(chars, 1, FirstEq(chars) - 1)>>
         \o split_all(SubSeq(chars, FirstEq(chars) + 1, Len(chars)))
    ELSE <<chars>>

\* the (source_path, dest_path) build_with_nuitka computes for an entry
parse_data_dir(chars) ==
    IF HasEq(chars)
    THEN LET parts == split_once(chars) IN
         [source_path |-> parts[1],
          dest_path |-> IF Len(parts) > 1 THEN parts[2] ELSE parts[1]]
    ELSE [source_path |-> chars, dest_path |-> chars]

\* the source_path _validate_build_files computes for an entry
cli_source_path(chars) == IF HasEq(chars) THEN split_all(chars)[1] ELSE chars

(***************************************************************************)
(* Builder.build_with_nuitka                                               *)
(***************************************************************************)
RECURSIVE MapSeq(_, _)
MapSeq(Op(_), q) == IF q = <<>> THEN <<>> ELSE <<Op(Head(q))>> \o MapSeq(Op, Tail(q))

\* a faulty variant of data_dir_args that does not check that the source exists
data_dir_args_unchecked(cfg, f) ==
    LET Flag(d) == "--include-data-dir=" \o Spell(parse_data_dir(d).source_path)
                   \o "=" \o Spell(parse_data_dir(d).dest_path)
    IN MapSeq(Flag, include_data_dirs(cfg).v)

\* the flags of the data directories whose source path exists in f
data_dir_args(cfg, f) ==
    LET present == SelectSeq(include_data_dirs(cfg).v,
                             LAMBDA d : Spell(parse_data_dir(d).source_path) \in f)
        Flag(d) == "--include-data-dir=" \o Spell(parse_data_dir(d).source_path)
                   \o "=" \o Spell(parse_data_dir(d).dest_path)
    IN MapSeq(Flag, present)

icon_args(cfg, f) ==
    IF Truthy(icon_file(cfg)) /\ icon_file(cfg).v \in f
    THEN <<"--windows-icon-from-ico=" \o icon_file(cfg).v>>
    ELSE <<>>

\* the command line of the backend, built with filesystem f
nuitka_args(cfg, exe, f) ==
    LET PackageFlag(p) == "--include-package=" \o p
        PluginFlag(p) == "--plugin-enable=" \o p
        meta == windows_metadata(cfg).v
    IN
    << exe, "-m", "nuitka", "--standalone", "--onefile", "--assume-yes-for-downloads",
       "--remove-output", "--no-pyi-file",
       "--output-filename=" \o output_name(cfg),
       "--product-name=" \o meta["product_name"],
       "--file-description=" \o meta["file_description"],
       "--product-version=" \o meta["product_version"],
       "--file-version=" \o meta["file_version"],
       "--copyright=" \o meta["copyright"],
       "--company-name=" \o meta["company_name"] >>
    \o nuitka_extra_args(cfg).v
    \o MapSeq(PackageFlag, include_packages(cfg).v)
    \o data_dir_args(cfg, f)
    \o MapSeq(PluginFlag, nuitka_plugins(cfg).v)
    \o icon_args(cfg, f)
    \o <<main_file(cfg)>>

\* a faulty variant of build_with_nuitka that does not check the entry point
main_file_unchecked(cfg, f) == FALSE

\* a faulty variant of build_with_nuitka that trusts the exit code of the backend
output_unchecked(cfg, f) == FALSE

\* the check of the entry point that opens build_with_nuitka
main_file_missing(cfg, f) == main_file(cfg) \notin f

\* the check of the output that closes build_with_nuitka
output_missing(cfg, f) == output_name(cfg) \notin f

build_with_nuitka ==
    /\ pc = "compile"
    /\ IF main_file_missing(config, fs)
       THEN /\ exc' = Exception("FileNotFoundError", <<"Main file not found", main_file(config)>>)
            /\ pc' = After("compile", exc')
            /\ UNCHANGED <<fs, procLog>>
       ELSE IF python_exe = None
       THEN \* subprocess.run cannot start the program "None"
            /\ exc' = Exception("FileNotFoundError", <<"No such file or directory", None>>)
            /\ pc' = After("compile", exc')
            /\ UNCHANGED <<fs, procLog>>
       ELSE \E out \in ProcOutcomes, left \in ArtifactChoices, made \in BOOLEAN :
            LET after == fs \cup left \cup (IF made THEN {output_name(config)} ELSE {})
                e == IF out # "ok"
                     THEN RaisedBy(out, Exception("RuntimeError", <<"Nuitka build failed">>))
                     ELSE IF output_missing(config, after)
                          THEN Exception("RuntimeError", <<"Output file not created">>)
                          ELSE NoException
            IN
            /\ fs' = after
            /\ procLog' = Append(procLog,
                                 Invocation("nuitka", nuitka_args(config, python_exe, fs), out))
            /\ exc' = e
            /\ pc' = After("compile", e)
    /\ UNCHANGED <<calls, doc, config, locked, session, tmpCount, mode, variant, depIdx, cbLog,
                   cleanupLog, narration, exitStatus>>

(***************************************************************************)
(* Builder.cleanup, as a step of its caller                                *)
(***************************************************************************)
CleanupEntry(r) ==
    [before |-> fs, after |-> r.fs, attempted |-> r.attempted, exc |-> r.exc, tdir |-> temp_dir]

\* a faulty variant of cleanup that forgets the session once it is done
cleanup_call_forgetting ==
    /\ pc = "cleanup"
    /\ LET r == cleanup(fs, config, temp_dir) IN
        /\ fs' = r.fs
        /\ cleanupLog' = Append(cleanupLog, CleanupEntry(r))
        /\ exc' = r.exc
        /\ pc' = After("cleanup", r.exc)
    /\ temp_dir' = None
    /\ venv_path' = None
    /\ python_exe' = None
    /\ UNCHANGED <<calls, doc, config, locked, tmpCount, mode, variant, depIdx, procLog,
                   cbLog, narration, exitStatus>>

cleanup_call ==
    /\ pc = "cleanup"
    /\ LET r == cleanup(fs, config, temp_dir) IN
        /\ fs' = r.fs
        /\ cleanupLog' = Append(cleanupLog, CleanupEntry(r))
        /\ exc' = r.exc
        /\ pc' = After("cleanup", r.exc)
    /\ UNCHANGED <<calls, doc, config, locked, session, tmpCount, mode, variant, depIdx, procLog,
                   cbLog, narration, exitStatus>>

(***************************************************************************)
(* Builder.build                                                           *)
(***************************************************************************)
TryBody == {"build_project", "provision", "install", "compile", "cleanup", "report"}

\* a KeyboardInterrupt delivered inside the try block, between two calls
interrupt ==
    /\ mode \in {"build", "run"}
    /\ pc \in TryBody
    /\ exc' = KeyboardInterrupt
    /\ pc' = "except"
    /\ depIdx' = 0
    /\ UNCHANGED <<calls, doc, config, fs, locked, session, tmpCount, mode, variant, procLog, cbLog,
                   cleanupLog, narration, exitStatus>>

\* a caller constructs BuilderConfig(config_path) and Builder(config), and then calls
\* build() (mode "build") or the stage operations (mode "direct")
construct ==
    /\ mode \in {"build", "direct"}
    /\ pc = "load"
    /\ LET r == BuilderConfig(doc) IN
        /\ config' = r.config
        /\ exc' = r.exc
        /\ pc' = IF r.exc # NoException THEN "done"
                 ELSE IF mode = "build" THEN "provision" ELSE "idle"
        /\ exitStatus' = IF r.exc = NoException THEN exitStatus ELSE "uncaught"
    /\ UNCHANGED <<calls, doc, fs, locked, session, tmpCount, mode, variant, depIdx, procLog, cbLog,
                   cleanupLog, narration>>

\* the end of the try block of build(): the closing messages, then build() returns
build_report ==
    /\ mode = "build"
    /\ pc = "report"
    /\ narration' = narration \cup {"Build completed successfully"}
    /\ exitStatus' = "returned"
    /\ pc' = "done"
    /\ UNCHANGED <<calls, doc, config, fs, locked, session, tmpCount, mode, variant, depIdx, procLog,
                   cbLog, cleanupLog, exc>>

\* a faulty variant of the handlers of build() that exits without calling cleanup()
build_except_no_cleanup ==
    /\ mode = "build"
    /\ pc = "except"
    /\ narration' = narration \cup {IF exc.type = "KeyboardInterrupt"
                                    THEN "Build interrupted by user"
                                    ELSE "Build failed"}
    /\ exitStatus' = "exit1"
    /\ pc' = "done"
    /\ UNCHANGED <<calls, doc, config, fs, locked, session, tmpCount, mode, variant, depIdx, procLog,
                   cbLog, cleanupLog, exc>>

\* `except KeyboardInterrupt` and `except Exception` of build(): the message,
\* cleanup(), sys.exit(1)
build_except ==
    /\ mode = "build"
    /\ pc = "except"
    /\ LET r == cleanup(fs, config, temp_dir) IN
        /\ narration' = narration \cup {IF exc.type = "KeyboardInterrupt"
                                        THEN "Build interrupted by user"
                                        ELSE "Build failed"}
        /\ fs' = r.fs
        /\ cleanupLog' = Append(cleanupLog, CleanupEntry(r))
        /\ exitStatus' = IF r.exc = NoException THEN "exit1" ELSE "uncaught"
        /\ pc' = "done"
    /\ UNCHANGED <<calls, doc, config, locked, session, tmpCount, mode, variant, depIdx, procLog,
                   cbLog, exc>>

(***************************************************************************)
(* PyNexeCLI                                                               *)
(***************************************************************************)
\* a faulty variant of _validate_build_files that does not look at the data
\* directories
_validate_build_files_no_data_dirs(cfg, f) ==
    (IF main_file(cfg) \notin f THEN <<"Main file not found: " \o main_file(cfg)>> ELSE <<>>)
    \o (IF Truthy(icon_file(cfg)) /\ icon_file(cfg).v \notin f
        THEN <<"Icon file not found: " \o icon_file(cfg).v>> ELSE <<>>)

\* _validate_build_files: the issues found, in order
_validate_build_files(cfg, f) ==
    LET Issue(d) == "Data directory not found: " \o Spell(cli_source_path(d))
        absent == SelectSeq(include_data_dirs(cfg).v,
                            LAMBDA d : Spell(cli_source_path(d)) \notin f)
    IN
    (IF main_file(cfg) \notin f THEN <<"Main file not found: " \o main_file(cfg)>> ELSE <<>>)
    \o (IF Truthy(icon_file(cfg)) /\ icon_file(cfg).v \notin f
        THEN <<"Icon file not found: " \o icon_file(cfg).v>> ELSE <<>>)
    \o MapSeq(Issue, absent)

\* len(config.build_libs) + len(config.project_libs) raises TypeError on a None
total_deps_raises(cfg) == build_libs(cfg).t # "list" \/ project_libs(cfg).t # "list"

\* PyNexeCLI.run: help, or the check that the configuration file exists, then the
\* dispatch to build_project or show_info
run ==
    /\ pc = "run"
    /\ IF mode = "help"
       THEN /\ pc' = "done"
            /\ exitStatus' = "returned"
            /\ UNCHANGED narration
       ELSE IF doc = NoFile
       THEN /\ pc' = "done"
            /\ exitStatus' = "exit1"
            /\ narration' = narration \cup {"Config file not found"}
       ELSE /\ pc' = IF mode = "run" THEN "build_project" ELSE "show_info"
            /\ UNCHANGED <<exitStatus, narration>>
    /\ UNCHANGED <<calls, doc, config, fs, locked, session, tmpCount, mode, variant, depIdx, procLog,
                   cbLog, cleanupLog, exc>>

\* build_project up to the first stage: BuilderConfig(config_path), the preflight
\* validation, Builder(config) and total_deps
build_project ==
    /\ mode = "run"
    /\ pc = "build_project"
    /\ LET r == BuilderConfig(doc) IN
       IF r.exc # NoException
       THEN /\ exc' = r.exc
            /\ pc' = "except"
            /\ UNCHANGED <<config, narration, exitStatus>>
       ELSE IF _validate_build_files(r.config, fs) # <<>>
       THEN \* sys.exit(1): SystemExit passes every handler of build_project
            /\ config' = r.config
            /\ narration' = narration \cup {"Validation failed"}
            /\ exitStatus' = "exit1"
            /\ pc' = "done"
            /\ UNCHANGED exc
       ELSE IF total_deps_raises(r.config)
       THEN /\ config' = r.config
            /\ exc' = Exception("TypeError", <<"object of type 'NoneType' has no len()">>)
            /\ pc' = "except"
            /\ UNCHANGED <<narration, exitStatus>>
       ELSE /\ config' = r.config
            /\ pc' = "provision"
            /\ UNCHANGED <<exc, narration, exitStatus>>
    /\ UNCHANGED <<calls, doc, fs, locked, session, tmpCount, mode, variant, depIdx, procLog, cbLog,
                   cleanupLog>>

\* the end of the try block of build_project: the success panel, then it returns
build_project_report ==
    /\ mode = "run"
    /\ pc = "report"
    /\ narration' = narration \cup {"Build completed successfully!"}
    /\ exitStatus' = "returned"
    /\ pc' = "done"
    /\ UNCHANGED <<calls, doc, config, fs, locked, session, tmpCount, mode, variant, depIdx, procLog,
                   cbLog, cleanupLog, exc>>

\* the title of the panel a handler of build_project prints
ErrorPanel(e) ==
    CASE e.type = "KeyboardInterrupt" -> "Build interrupted by user"
      [] e.type = "FileNotFoundError" -> "File not found"
      [] e.type = "ValueError" -> "Configuration error"
      [] e.type = "RuntimeError" -> "Build failed"
      [] OTHER -> "Unexpected error"

\* the handlers of build_project: the panel, then sys.exit(1)
build_project_except ==
    /\ mode = "run"
    /\ pc = "except"
    /\ narration' = narration \cup {ErrorPanel(exc)}
    /\ exitStatus' = "exit1"
    /\ pc' = "done"
    /\ UNCHANGED <<calls, doc, config, fs, locked, session, tmpCount, mode, variant, depIdx, procLog,
                   cbLog, cleanupLog, exc>>

\* the title of the panel a handler of show_info prints
InfoPanel(e) ==
    CASE e.type = "FileNotFoundError" -> "Config file not found"
      [] e.type = "ValueError" -> "Invalid configuration"
      [] OTHER -> "Failed to load project info"

\* show_info: the table, or the panel of the handler that caught the failure; either
\* way show_info returns
show_info ==
    /\ mode = "info"
    /\ pc = "show_info"
    /\ LET r == BuilderConfig(doc)
           e == IF r.exc # NoException THEN r.exc
                ELSE IF total_deps_raises(r.config)
                     THEN Exception("TypeError", <<"object of type 'NoneType' has no len()">>)
                     ELSE NoException
       IN
       /\ config' = r.config
       /\ exc' = e
       /\ narration' = narration \cup {IF e = NoException THEN "table" ELSE InfoPanel(e)}
    /\ exitStatus' = "returned"
    /\ pc' = "done"
    /\ UNCHANGED <<calls, doc, fs, locked, session, tmpCount, mode, variant, depIdx, procLog, cbLog,
                   cleanupLog>>

(***************************************************************************)
(* The documents and the environments the pipeline is run against.         *)
(***************************************************************************)
Absent == [t |-> "absent"]

\* the document holding the keys of `fields` that are not Absent
MakeDoc(fields) == Map([k \in {k \in DOMAIN fields : fields[k] # Absent} |-> fields[k]])

\* a required key: absent, present with no value, present and empty, or given
RequiredChoices(value) == {Absent, Null, Str(""), Str(value)}

Packages == {"requests", "rich"}
BuildLibsChoices == {Absent, List(<<>>), List(<<"nuitka">>)}
ProjectLibsChoices == {Absent, Null} \cup {List(q) : q \in BSeq(Packages, MaxLibs)}
\* the custom cleanup paths: none, a log file, or the declared output itself
CleanupItemsChoices == {Absent, List(<<ExtraItem>>), List(<<OutputFile>>)}

\* the documents with the three required keys and any of the optional ones
ValidDocs ==
    { MakeDoc([project_name |-> Str(ProjectName), main_file |-> Str(MainFile),
               output_name |-> Str(OutputFile), build_libs |-> bl, project_libs |-> pl,
               cleanup_items |-> ci]) :
        bl \in BuildLibsChoices, pl \in ProjectLibsChoices, ci \in CleanupItemsChoices }

\* the documents over the three required keys alone
RequiredDocs ==
    { MakeDoc([project_name |-> a, main_file |-> b, output_name |-> c]) :
        a \in RequiredChoices(ProjectName), b \in RequiredChoices(MainFile),
        c \in RequiredChoices(OutputFile) }

\* no file at config_path, an empty file, or a document with a required key missing
UnloadableDocs == ({NoFile, Null} \cup RequiredDocs) \ ValidDocs

\* the paths that may exist before the pipeline starts
InitialPaths == {MainFile, OutputFile, "__pycache__", ExtraItem}

\* the paths whose removal may fail
Lockable == BackendArtifacts \cup {"__pycache__", ExtraItem, TempName(1)}
LockedChoices == {L \in SUBSET Lockable : Cardinality(L) <= MaxLocked}

InitSession ==
    /\ config = Unset
    /\ temp_dir = None
    /\ venv_path = None
    /\ python_exe = None
    /\ tmpCount = 0
    /\ depIdx = 0
    /\ procLog = <<>>
    /\ cbLog = <<>>
    /\ cleanupLog = <<>>
    /\ exc = NoException
    /\ narration = {}
    /\ exitStatus = "running"
    /\ calls = 0

InitEnvironment ==
    \/ /\ doc \in ValidDocs
       /\ fs \in SUBSET InitialPaths
       /\ locked \in LockedChoices
    \/ /\ doc \in UnloadableDocs
       /\ fs \in SUBSET {MainFile}
       /\ locked = {}

(***************************************************************************)
(* Spec: a caller loads the configuration and runs Builder.build().        *)
(***************************************************************************)
Init ==
    /\ InitEnvironment
    /\ InitSession
    /\ mode = "build"
    /\ variant = "silent"
    /\ pc = "load"

Next ==
    \/ construct
    \/ create_temp_env
    \/ install_step
    \/ install_return
    \/ build_with_nuitka
    \/ cleanup_call
    \/ build_report
    \/ interrupt
    \/ build_except

Spec == Init /\ [][Next]_vars

(***************************************************************************)
(* SpecCLI: the command line, `pynexe run|info|help --config config_path`. *)
(***************************************************************************)
InitCLI ==
    /\ InitEnvironment
    /\ InitSession
    /\ mode \in {"run", "info", "help"}
    /\ variant = "callback"
    /\ pc = "run"

NextCLI ==
    \/ run
    \/ build_project
    \/ show_info
    \/ create_temp_env
    \/ install_step
    \/ install_return
    \/ build_with_nuitka
    \/ cleanup_call
    \/ build_project_report
    \/ interrupt
    \/ build_project_except

SpecCLI == InitCLI /\ [][NextCLI]_vars

(***************************************************************************)
(* SpecStages: a caller constructs a Builder and calls its public          *)
(* operations one by one, in any order, going on after one has raised.     *)
(***************************************************************************)
StageOps == {"provision", "install", "compile", "cleanup", "build"}

\* the caller invokes create_temp_env, install_dependencies (silent),
\* install_dependencies_with_callback (callback), build_with_nuitka, cleanup or build
call ==
    /\ \/ mode = "direct" /\ pc = "idle"
       \/ mode = "build" /\ pc = "done" /\ exitStatus = "returned"
    /\ calls < MaxCalls
    /\ calls' = calls + 1
    /\ \E op \in StageOps, v \in {"silent", "callback"} :
        /\ op # "install" => v = "silent"
        /\ mode' = IF op = "build" THEN "build" ELSE "direct"
        /\ pc' = IF op = "build" THEN "provision" ELSE op
        /\ variant' = v
    /\ depIdx' = 0
    /\ exitStatus' = "running"
    /\ UNCHANGED <<doc, config, fs, locked, session, tmpCount, procLog, cbLog, cleanupLog,
                   exc, narration>>

\* documents that differ in project_libs: absent, present and null, one package
StagesDocs ==
    { MakeDoc([project_name |-> Str(ProjectName), main_file |-> Str(MainFile),
               output_name |-> Str(OutputFile), build_libs |-> List(<<"nuitka">>),
               project_libs |-> pl]) :
        pl \in {Absent, Null, List(<<"requests">>)} }

InitStages ==
    /\ doc \in StagesDocs
    /\ fs \in {{}, {MainFile}, {MainFile, "__pycache__"}}
    /\ locked \in {{}, {TempName(1)}}
    /\ InitSession
    /\ mode = "direct"
    /\ variant = "silent"
    /\ pc = "load"

NextStages ==
    \/ construct
    \/ call
    \/ create_temp_env
    \/ install_step
    \/ install_return
    \/ install_type_error
    \/ build_with_nuitka
    \/ cleanup_call
    \/ build_report
    \/ interrupt
    \/ build_except

SpecStages == InitStages /\ [][NextStages]_vars

(***************************************************************************)
(* SpecEntry: every entry point that loads a configuration, run against    *)
(* the documents that cannot be loaded and a few that can: a caller of     *)
(* Builder.build(), and the command line.                                  *)
(***************************************************************************)
InitEntry ==
    /\ doc \in UnloadableDocs \cup StagesDocs
    /\ fs \in SUBSET {MainFile, "__pycache__"}
    /\ locked = {}
    /\ InitSession
    /\ mode \in {"build", "run", "info", "help"}
    /\ variant = IF mode = "build" THEN "silent" ELSE "callback"
    /\ pc = IF mode = "build" THEN "load" ELSE "run"

NextEntry ==
    \/ construct
    \/ run
    \/ build_project
    \/ show_info
    \/ create_temp_env
    \/ install_step
    \/ install_return
    \/ build_with_nuitka
    \/ cleanup_call
    \/ build_report
    \/ build_project_report
    \/ interrupt
    \/ build_except
    \/ build_project_except

SpecEntry == InitEntry /\ [][NextEntry]_vars

(***************************************************************************)
(* SpecItems: Builder.build() run for two project names and for every      *)
(* short list of custom cleanup paths.                                     *)
(***************************************************************************)
OtherName == "foo"
CustomPaths == {ExtraItem, OutputFile, "dist"}

ItemsDocs ==
    { MakeDoc([project_name |-> Str(name), main_file |-> Str(MainFile),
               output_name |-> Str(OutputFile), build_libs |-> List(<<"nuitka">>),
               cleanup_items |-> ci]) :
        name \in {ProjectName, OtherName},
        ci \in {Absent} \cup {List(q) : q \in BSeq(CustomPaths, MaxItems)} }

InitItems ==
    /\ doc \in ItemsDocs
    /\ fs \in {{MainFile} \cup S : S \in SUBSET {ExtraItem, "dist", OtherName \o ".dist"}}
    /\ locked = {}
    /\ InitSession
    /\ mode = "build"
    /\ variant = "silent"
    /\ pc = "load"

SpecItems == InitItems /\ [][Next]_vars

(***************************************************************************)
(* SpecDataDirs: the command line run on documents that declare one data   *)
(* directory entry, for every short entry over a few characters.           *)
(***************************************************************************)
EntryChars == {"a", "b", "c", "="}

DataDirDocs ==
    { MakeDoc([project_name |-> Str(ProjectName), main_file |-> Str(MainFile),
               output_name |-> Str(OutputFile), build_libs |-> List(<<"nuitka">>),
               include_data_dirs |-> List(<<entry>>)]) :
        entry \in BSeq(EntryChars, MaxEntry) }

InitDataDirs ==
    /\ doc \in DataDirDocs
    /\ fs \in {{MainFile} \cup S : S \in SUBSET {"a", "ab"}}
    /\ locked = {}
    /\ InitSession
    /\ mode \in {"run", "info"}
    /\ variant = "callback"
    /\ pc = "run"

SpecDataDirs == InitDataDirs /\ [][NextCLI]_vars

(***************************************************************************)
(* SpecArgs: Builder.build() run on documents that differ in the options   *)
(* that shape the command line of the backend, with and without the paths  *)
(* they name.                                                              *)
(***************************************************************************)
IconFile == "icon.ico"

\* the entries a, a=b and b=c
ArgsEntries == {<<"a">>, <<"a", "=", "b">>, <<"b", "=", "c">>}

ArgsDocs ==
    { MakeDoc([project_name |-> Str(ProjectName), main_file |-> Str(MainFile),
               output_name |-> Str(OutputFile), build_libs |-> List(<<"nuitka">>),
               nuitka_extra_args |-> ea, include_packages |-> ip,
               include_data_dirs |-> dd, nuitka_plugins |-> np, icon_file |-> ic]) :
        ea \in {Absent, List(<<"--lto=no", "--jobs=1">>), List(<<"--jobs=1", "--lto=no">>)},
        ip \in {Absent, List(<<"pkg", "lib">>)},
        dd \in {Absent} \cup {List(q) : q \in BSeq(ArgsEntries, MaxDataDirs)},
        np \in {Absent, List(<<"upx">>)},
        ic \in {Absent, Null, Str(IconFile)} }

InitArgs ==
    /\ doc \in ArgsDocs
    /\ fs \in {{MainFile} \cup S : S \in SUBSET {"a", "b", IconFile}}
    /\ locked = {}
    /\ InitSession
    /\ mode = "build"
    /\ variant = "silent"
    /\ pc = "load"

SpecArgs == InitArgs /\ [][Next]_vars

(***************************************************************************)
(* SpecPreflight: Builder.build() and the command line, run on documents   *)
(* that name data directories and an icon, with and without the paths they *)
(* name and the entry point.                                               *)
(***************************************************************************)
PreflightDocs ==
    { MakeDoc([project_name |-> Str(ProjectName), main_file |-> Str(MainFile),
               output_name |-> Str(OutputFile), build_libs |-> List(<<"nuitka">>),
               include_data_dirs |-> dd, icon_file |-> ic]) :
        dd \in {Absent} \cup {List(q) : q \in BSeq(ArgsEntries, MaxDataDirs)},
        ic \in {Absent, Null, Str(IconFile)} }

InitPreflight ==
    /\ doc \in PreflightDocs
    /\ fs \in SUBSET {MainFile, "a", "b", IconFile}
    /\ locked = {}
    /\ InitSession
    /\ mode \in {"build", "run", "info"}
    /\ variant = IF mode = "build" THEN "silent" ELSE "callback"
    /\ pc = IF mode = "build" THEN "load" ELSE "run"

SpecPreflight == InitPreflight /\ [][NextEntry]_vars

(***************************************************************************)
(* The properties.                                                         *)
(***************************************************************************)
Last(q) == q[Len(q)]

\* build() was entered and has ended: it returned or it terminated the process
BuildEnded == mode = "build" /\ pc = "done" /\ config # Unset

\* the installer invocations issued so far, in order
Pips == SelectSeq(procLog, LAMBDA i : i.tool = "pip")

\* the scratch directories created so far
Scratch == {TempName(n) : n \in 1..tmpCount}

\* C1: whenever build() has ended, by returning after all stages succeeded or by
\* terminating the process after a stage failed or an interruption arrived,
\* cleanup() has been invoked.
C1_CleanupOnEveryExit == BuildEnded => Len(cleanupLog) >= 1

\* build() was interrupted while the installer ran, and has ended
C1_Witness ==
    /\ BuildEnded
    /\ exitStatus = "exit1"
    /\ exc = KeyboardInterrupt
    /\ Len(procLog) >= 2
    /\ Last(procLog).tool = "pip"
    /\ Last(procLog).out = "interrupted"
    /\ Len(cleanupLog) = 1

\* C2 as stated: once build() has ended, no scratch directory that create_temp_env
\* made exists.
C2_ScratchGone == BuildEnded => Scratch \cap fs = {}

\* C2 as amended: once build() has ended, cleanup() has attempted to remove the
\* scratch directory that create_temp_env made, and the directory exists only if
\* that removal failed.
C2_ScratchGoneUnlessLocked ==
    BuildEnded =>
        \A d \in Scratch :
            /\ d = temp_dir
            /\ \E i \in 1..Len(cleanupLog) : d \in cleanupLog[i].attempted
            /\ d \in fs => d \in locked

\* build() was interrupted while the installer ran, and the scratch directory is gone
C2_Witness ==
    /\ BuildEnded
    /\ Len(procLog) >= 2
    /\ Last(procLog).tool = "pip"
    /\ Last(procLog).out = "interrupted"
    /\ Scratch = {TempName(1)}
    /\ TempName(1) \notin fs

\* C3: when `run` exits with status 1 because a stage failed or the run was
\* interrupted after Provision had made a scratch directory, cleanup() has run and
\* the scratch directory does not remain (unless its removal failed).
C3_CliCleansUpOnFailure ==
    (mode = "run" /\ pc = "done" /\ exitStatus = "exit1" /\ tmpCount >= 1) =>
        /\ Len(cleanupLog) >= 1
        /\ \A d \in Scratch : d \in fs => d \in locked

\* the packages of build_libs followed by those of project_libs
BuildThenProject(cfg) ==
    build_libs(cfg).v \o (IF project_libs(cfg).t = "list" THEN project_libs(cfg).v ELSE <<>>)

\* C4: if the installation of the N-th package of build_libs ++ project_libs exits
\* non-zero, it is the last installer invocation ever issued, the N-1 before it were
\* issued for packages 1..N-1 in order and exited zero, the stage has raised the
\* install failure naming package N, and no later stage has started.
C4_InstallFailsFast ==
    config # Unset =>
        \A n \in 1..Len(Pips) :
            Pips[n].out = "fail" =>
                /\ n = Len(Pips)
                /\ Pips[n].arg = <<BuildThenProject(config)[n]>>
                /\ \A j \in 1..(n - 1) :
                    Pips[j].out = "ok" /\ Pips[j].arg = <<BuildThenProject(config)[j]>>
                /\ exc = Exception("RuntimeError", <<"Failed to install", BuildThenProject(config)[n]>>)
                /\ pc \in {"except", "done"}
                /\ Last(procLog) = Pips[n]

\* the third package failed to install after two were installed, with more to come
C4_Witness ==
    /\ Len(Pips) = 3
    /\ Pips[3].out = "fail"
    /\ Len(BuildThenProject(config)) = 4
    /\ pc = "done"

\* C5: the installer is invoked for the packages of build_libs, then those of
\* project_libs, in list order; the i-th invocation of the observer carries
\* (package i, i, len(build_libs) + len(project_libs)) and comes after exactly
\* i - 1 installations; every installation follows its own observer invocation.
C5_InstallOrderAndObserver ==
    (mode = "run" /\ config # Unset /\ ~total_deps_raises(config)) =>
        LET deps == BuildThenProject(config)
            total == Len(build_libs(config).v) + Len(project_libs(config).v)
            before == Len(procLog) - Len(Pips)
        IN
        /\ Len(Pips) <= Len(deps)
        /\ \A i \in 1..Len(Pips) : Pips[i].arg = <<deps[i]>>
        /\ \A i \in 1..Len(cbLog) :
            /\ cbLog[i].dep = deps[i]
            /\ cbLog[i].index = i
            /\ cbLog[i].total = total
            /\ cbLog[i].issued + 1 <= Len(procLog) =>
                    /\ i <= Len(Pips)
                    /\ procLog[cbLog[i].issued + 1] = Pips[i]
            /\ \A j \in 1..cbLog[i].issued : procLog[j].tool = "pip" => procLog[j].out = "ok"
            /\ Len(SelectSeq(SubSeq(procLog, 1, cbLog[i].issued), LAMBDA x : x.tool = "pip")) = i - 1
        /\ Len(Pips) <= Len(cbLog)
        /\ Len(cbLog) <= Len(Pips) + 1
        /\ Len(cbLog) = Len(Pips) + 1 => exc.type = "CallbackError"

\* three packages of two lists were installed, each after its observer invocation
C5_Witness ==
    /\ mode = "run"
    /\ Len(Pips) = 3
    /\ Len(cbLog) = 3
    /\ config # Unset
    /\ Len(build_libs(config).v) = 1
    /\ Len(project_libs(config).v) = 2
    /\ project_libs(config).v[1] # project_libs(config).v[2]
    /\ pc = "compile"

\* the filesystem as the last external process left it: no cleanup() has touched it
\* yet, or it is what the first cleanup() found
AfterToolchain == IF cleanupLog = <<>> THEN fs ELSE cleanupLog[1].before

\* the backend was run, exited zero, and the declared output did not exist then
BackendLied ==
    /\ procLog # <<>>
    /\ Last(procLog).tool = "nuitka"
    /\ Last(procLog).out = "ok"
    /\ output_name(config) \notin AfterToolchain

\* C6: if the backend exited zero and the declared output does not exist,
\* build_with_nuitka has raised the failure of the missing output, and build()
\* ends only with cleanup() performed, with a non-zero status, and with no report
\* of a successful build.
C6_OutputNotProduced ==
    (mode = "build" /\ config # Unset /\ BackendLied) =>
        /\ exc = Exception("RuntimeError", <<"Output file not created">>)
        /\ pc \in {"except", "done"}
        /\ pc = "done" =>
            /\ Len(cleanupLog) >= 1
            /\ exitStatus = "exit1"
            /\ "Build completed successfully" \notin narration

\* build() has ended after a backend that exited zero without making the output
C6_Witness ==
    /\ mode = "build"
    /\ config # Unset
    /\ BackendLied
    /\ pc = "done"
    /\ narration = {"Build failed"}

\* C7: a build_with_nuitka that finds the entry point missing raises the failure of
\* the missing main file and starts no backend process.
C7_MainFileChecked ==
    [][(build_with_nuitka /\ main_file(config) \notin fs) =>
            /\ procLog' = procLog
            /\ exc' = Exception("FileNotFoundError", <<"Main file not found", main_file(config)>>)
            /\ pc' = "except"]_vars

\* the Compile stage has failed on a missing entry point, no backend having run
C7_Witness ==
    /\ mode = "build"
    /\ pc = "except"
    /\ exc.type = "FileNotFoundError"
    /\ MainFile \notin fs
    /\ procLog # <<>>
    /\ Last(procLog).tool # "nuitka"

\* C8: in every state of the pipeline, cleanup() followed at once by a second
\* cleanup() raises nothing either time, and the second leaves the filesystem as
\* the first left it; so it is for every two invocations that did follow each other.
C8_CleanupIdempotent ==
    config # Unset =>
        LET first == cleanup(fs, config, temp_dir)
            second == cleanup(first.fs, config, temp_dir)
        IN
        /\ first.exc = NoException
        /\ second.exc = NoException
        /\ second.fs = first.fs
        /\ \A i \in 1..(Len(cleanupLog) - 1) :
            cleanupLog[i + 1].before = cleanupLog[i].after =>
                /\ cleanupLog[i + 1].exc = NoException
                /\ cleanupLog[i + 1].after = cleanupLog[i].after

\* cleanup() ran twice in a row; the first removed a path and could not remove another
C8_Witness ==
    /\ Len(cleanupLog) = 2
    /\ cleanupLog[1].after # cleanupLog[1].before
    /\ cleanupLog[1].attempted \cap cleanupLog[1].after # {}
    /\ cleanupLog[2].before = cleanupLog[1].after
    /\ cleanupLog[2].attempted # {}

\* the elements of a sequence
Range(q) == {q[i] : i \in 1..Len(q)}

\* C9: every cleanup() raises nothing, has attempted the removal of every path of
\* cleanup_items and of the scratch directory that existed, whichever removals
\* failed, and has removed each of them whose removal did not fail; build() never
\* ends on an error of cleanup().
C9_CleanupBestEffort ==
    /\ \A i \in 1..Len(cleanupLog) :
        LET e == cleanupLog[i]
            targets == Range(cleanup_items(config))
                       \cup (IF e.tdir # None THEN {e.tdir} ELSE {})
        IN
        /\ e.exc = NoException
        /\ e.attempted = targets \cap e.before
        /\ e.after = e.before \ (e.attempted \ locked)
    /\ exitStatus # "uncaught" \/ config = Unset

\* a cleanup() failed to remove a file, went on, and removed the scratch directory
C9_Witness ==
    \E i \in 1..Len(cleanupLog) :
        LET e == cleanupLog[i] IN
        /\ ExtraItem \in e.attempted
        /\ ExtraItem \in e.after
        /\ e.tdir \in e.attempted
        /\ e.tdir \notin e.after

\* the required fields a document lacks or leaves empty
MissingOrEmpty(d) ==
    {f \in Range(required_fields) : d = Null \/ f \notin DOMAIN d.v \/ d.v[f] \in {Null, Str("")}}

\* C10: constructing the configuration from a document that lacks or leaves empty
\* one or more required fields fails with the ValueError naming each of these
\* fields; from a document that has all three it succeeds.
C10_InvalidConfigNamesAll ==
    (mode = "build" /\ pc # "load" /\ doc # NoFile) =>
        IF MissingOrEmpty(doc) # {}
        THEN /\ config = Unset
             /\ exc.type = "ValueError"
             /\ Range(exc.detail) = MissingOrEmpty(doc)
        ELSE config = doc

\* every external process build() started exited zero, the backend was among them and
\* the declared output existed when it returned, and no interruption arrived
ToolchainWorked ==
    /\ \A i \in 1..Len(procLog) : procLog[i].out = "ok"
    /\ \E i \in 1..Len(procLog) : procLog[i].tool = "nuitka"
    /\ output_name(config) \in AfterToolchain
    /\ exc.type # "KeyboardInterrupt"

StageRank(tool) == CASE tool = "venv" -> 1 [] tool = "pip" -> 2 [] tool = "nuitka" -> 3

\* C12: under any sequence of calls to the operations of a Builder, the instance
\* creates at most one scratch directory, every scratch directory that exists is the
\* one the session tracks, and no process of an earlier stage is started after one
\* of a later stage.
C12_SingleShot ==
    /\ tmpCount <= 1
    /\ Scratch \cap fs \subseteq {temp_dir}
    /\ \A i, j \in 1..Len(procLog) :
        i < j => StageRank(procLog[i].tool) <= StageRank(procLog[j].tool)

\* what the command line prints when the command succeeded
SuccessReports == {"Build completed successfully!", "table"}

\* C13: when `run` or `info` has ended, the exit status is 1 if a failure or an
\* interruption was reported, and it is 0 (the command returned) only if none was.
C13_ExitStatus ==
    (mode \in {"run", "info"} /\ pc = "done") =>
        IF narration \subseteq SuccessReports
        THEN exitStatus = "returned"
        ELSE exitStatus = "exit1"

\* no scratch directory was made, no external process was started, the observer
\* was not called, cleanup() has removed nothing, and the session is empty
NoSideEffect ==
    /\ tmpCount = 0
    /\ procLog = <<>>
    /\ cbLog = <<>>
    /\ cleanupLog = <<>>
    /\ temp_dir = None /\ venv_path = None /\ python_exe = None

\* C14: as long as no configuration has been loaded and validated there is no side
\* effect, and there never is one when the document is missing or lacks a required
\* field; Provision is reached only with a loaded and validated configuration.
C14_NoSideEffectBeforeLoad ==
    /\ config = Unset => NoSideEffect
    /\ (doc = NoFile \/ MissingOrEmpty(doc) # {}) => NoSideEffect
    /\ pc \in {"provision", "install", "compile", "cleanup"} => config = doc

\* `run` has ended on a document with an empty required field: the configuration
\* error was reported and nothing was provisioned
C14_Witness ==
    /\ mode = "run"
    /\ pc = "done"
    /\ doc # NoFile
    /\ doc # Null
    /\ \E f \in MissingOrEmpty(doc) : f \in DOMAIN doc.v /\ doc.v[f] = Str("")
    /\ narration = {"Configuration error"}
    /\ exitStatus = "exit1"
    /\ NoSideEffect

\* the custom cleanup paths of a document, in document order
CustomItems(d) == IF "cleanup_items" \in DOMAIN d.v THEN d.v["cleanup_items"].v ELSE <<>>

\* C15: the cleanup_items of a loaded configuration are <name>.build, <name>.dist,
\* <name>.onefile-build and __pycache__, in this order, followed by the custom
\* cleanup paths of the document in document order, and nothing else.
C15_CleanupItems ==
    config # Unset =>
        LET items == cleanup_items(config)
            name == doc.v["project_name"].v
        IN
        /\ Len(items) = 4 + Len(CustomItems(doc))
        /\ items[1] = name \o ".build"
        /\ items[2] = name \o ".dist"
        /\ items[3] = name \o ".onefile-build"
        /\ items[4] = "__pycache__"
        /\ \A i \in 1..Len(CustomItems(doc)) : items[4 + i] = CustomItems(doc)[i]

\* a cleanup() of project foo with two different custom paths has removed foo.dist
\* and both custom paths
C15_Witness ==
    /\ config # Unset
    /\ project_name(config) = OtherName
    /\ Len(CustomItems(doc)) = 2
    /\ CustomItems(doc)[1] # CustomItems(doc)[2]
    /\ cleanupLog # <<>>
    /\ {OtherName \o ".dist", CustomItems(doc)[1], CustomItems(doc)[2]}
            \subseteq cleanupLog[1].attempted

\* the backend invocations issued so far
Nuitkas == SelectSeq(procLog, LAMBDA i : i.tool = "nuitka")

\* C16: an entry without "=" is both its source and its destination; an entry with
\* "=" is its source, an "=", and its destination, the source holding no "=" (so
\* a=b gives (a, b) and a=b=c gives (a, b=c)); the preflight check of the command
\* line computes the same source; and every backend invocation carries the flag of
\* the entry, whose source the preflight check found.
C16_DataDirParsing ==
    config # Unset =>
        \A i \in 1..Len(include_data_dirs(config).v) :
            LET entry == include_data_dirs(config).v[i]
                parsed == parse_data_dir(entry)
            IN
            /\ IF "=" \in Range(entry)
               THEN /\ parsed.source_path \o <<"=">> \o parsed.dest_path = entry
                    /\ "=" \notin Range(parsed.source_path)
               ELSE parsed.source_path = entry /\ parsed.dest_path = entry
            /\ entry = <<"a", "=", "b">> =>
                    parsed = [source_path |-> <<"a">>, dest_path |-> <<"b">>]
            /\ entry = <<"a">> => parsed = [source_path |-> <<"a">>, dest_path |-> <<"a">>]
            /\ entry = <<"a", "=", "b", "=", "c">> =>
                    parsed = [source_path |-> <<"a">>, dest_path |-> <<"b", "=", "c">>]
            /\ cli_source_path(entry) = parsed.source_path
            /\ \A n \in 1..Len(Nuitkas) :
                    "--include-data-dir=" \o Spell(parsed.source_path) \o "="
                        \o Spell(parsed.dest_path) \in Range(Nuitkas[n].arg)

\* the backend was run for the entry a=b=c, with source a and destination b=c
C16_Witness ==
    /\ config # Unset
    /\ include_data_dirs(config).v = << <<"a", "=", "b", "=", "c">> >>
    /\ Len(Nuitkas) = 1
    /\ "--include-data-dir=a=b=c" \in Range(Nuitkas[1].arg)
    /\ "a=b" \notin fs

\* C17: in build(), the first process is the provisioner; the installer runs only
\* after the provisioner exited zero; the backend runs only after every process
\* before it exited zero and every package of the Install stage was installed, in
\* order; a process that did not exit zero is the last one started; the stages
\* never run out of order; the Cleanup stage starts only after the backend exited
\* zero; and once cleanup() has run no stage can start.
C17_StageOrder ==
    (mode = "build" /\ config # Unset) =>
        /\ procLog # <<>> => procLog[1].tool = "venv"
        /\ \A i, j \in 1..Len(procLog) :
            i < j => /\ StageRank(procLog[i].tool) <= StageRank(procLog[j].tool)
                     /\ procLog[i].out = "ok"
        /\ Nuitkas # <<>> =>
            /\ Len(Pips) = Len(silent_deps(config))
            /\ \A n \in 1..Len(Pips) : Pips[n].arg = <<silent_deps(config)[n]>>
        /\ pc = "install" => (procLog # <<>> /\ \A i \in 1..Len(procLog) : procLog[i].out = "ok")
        /\ pc = "compile" =>
            /\ Len(Pips) = Len(silent_deps(config))
            /\ \A i \in 1..Len(procLog) : procLog[i].out = "ok"
        /\ pc = "cleanup" =>
            /\ Nuitkas # <<>>
            /\ \A i \in 1..Len(procLog) : procLog[i].out = "ok"
        /\ cleanupLog # <<>> => pc \in {"report", "except", "done"}

\* build() has ended after the backend exited non-zero: two packages had been
\* installed, and cleanup() ran once
C17_Witness ==
    /\ BuildEnded
    /\ Len(procLog) = 4
    /\ Len(Pips) = 2
    /\ Last(procLog).tool = "nuitka"
    /\ Last(procLog).out = "fail"
    /\ Len(cleanupLog) = 1
    /\ exitStatus = "exit1"

\* the provisioner invocations issued so far
Venvs == SelectSeq(procLog, LAMBDA i : i.tool = "venv")

\* C18: within one build() the provisioner is started at most once, the backend at
\* most once, and the n-th installer invocation is for position n of build_libs ++
\* project_libs, so there is at most one per position; an invocation that did not
\* exit zero is followed by none.
C18_NoRetry ==
    (mode = "build" /\ config # Unset) =>
        /\ Len(Venvs) <= 1
        /\ Len(Nuitkas) <= 1
        /\ Len(Pips) <= Len(BuildThenProject(config))
        /\ \A n \in 1..Len(Pips) : Pips[n].arg = <<BuildThenProject(config)[n]>>
        /\ \A i \in 1..Len(procLog) : procLog[i].out # "ok" => i = Len(procLog)

\* build() has returned after installing the same package at two positions, once
\* for each
C18_Witness ==
    /\ BuildEnded
    /\ exitStatus = "returned"
    /\ Len(Pips) = 3
    /\ Pips[2].arg = Pips[3].arg
    /\ Len(Venvs) = 1
    /\ Len(Nuitkas) = 1

\* create_temp_env has completed successfully at least once
Provisioned == \E i \in 1..Len(Venvs) : Venvs[i].out = "ok"

\* C19 as stated: as long as create_temp_env has not completed successfully (it
\* was never called, or the provisioner did not exit zero), temp_dir and the path
\* of the isolated interpreter are both None.
C19_SessionNoneUntilSuccess == ~Provisioned => (temp_dir = None /\ python_exe = None)

\* C19 as amended: the path of the isolated interpreter is None as long as
\* create_temp_env has not completed successfully; temp_dir and the environment
\* path are None as long as create_temp_env has not been called, and from its
\* first call on they name the scratch directory made last, whether the
\* provisioner exited zero or not.
C19_SessionNoneUntilCalled ==
    config # Unset =>
        /\ ~Provisioned => python_exe = None
        /\ Provisioned => \E n \in 1..tmpCount : python_exe = PythonExe(TempName(n))
        /\ IF tmpCount = 0
           THEN temp_dir = None /\ venv_path = None
           ELSE temp_dir = TempName(tmpCount) /\ venv_path = VenvPath(TempName(tmpCount))

\* create_temp_env was called once and the provisioner exited non-zero: the scratch
\* directory exists and the session names it, without an interpreter
C19_Witness ==
    /\ mode = "direct"
    /\ pc = "idle"
    /\ Len(procLog) = 1
    /\ procLog[1].tool = "venv"
    /\ procLog[1].out = "fail"
    /\ temp_dir = TempName(1)
    /\ temp_dir \in fs
    /\ python_exe = None

\* C20: a step of install_dependencies, of install_dependencies_with_callback, of
\* build_with_nuitka or of cleanup, whether it ends in success or in failure,
\* leaves the three fields of the session, the configuration and its document as
\* they were.
C20_OnlyProvisionWritesSession ==
    [][(install_step \/ install_return \/ install_type_error \/ build_with_nuitka
            \/ cleanup_call) => UNCHANGED <<temp_dir, venv_path, python_exe, config, doc>>]_vars

\* after a Provision, an installation failed and a cleanup() removed the scratch
\* directory; the session still names the directory and the interpreter
C20_Witness ==
    /\ mode = "direct"
    /\ pc = "idle"
    /\ Len(procLog) = 2
    /\ procLog[2].tool = "pip"
    /\ procLog[2].out = "fail"
    /\ Len(cleanupLog) = 1
    /\ temp_dir = TempName(1)
    /\ temp_dir \in cleanupLog[1].attempted
    /\ temp_dir \notin fs
    /\ venv_path = VenvPath(TempName(1))
    /\ python_exe = PythonExe(TempName(1))
    /\ config = doc

\* a caller has run create_temp_env, which succeeded, and then the Install variant
\* v, which has ended
InstallEnded(v) ==
    /\ mode = "direct"
    /\ pc = "idle"
    /\ variant = v
    /\ calls = 2
    /\ Len(Venvs) = 1
    /\ Venvs[1].out = "ok"
    /\ Nuitkas = <<>>
    /\ cleanupLog = <<>>

\* what install_dependencies does with the installer outcomes observed: it invokes
\* the installer for its packages in order, stops at the first invocation that does
\* not exit zero with the failure of that invocation, and succeeds otherwise
AsSilentInstall ==
    LET deps == silent_deps(config) IN
    /\ Len(Pips) <= Len(deps)
    /\ \A n \in 1..Len(Pips) : Pips[n].arg = <<deps[n]>>
    /\ \A n \in 1..(Len(Pips) - 1) : Pips[n].out = "ok"
    /\ IF \A n \in 1..Len(Pips) : Pips[n].out = "ok"
       THEN Len(Pips) = Len(deps) /\ exc = NoException
       ELSE exc = RaisedBy(Last(Pips).out,
                           Exception("RuntimeError", <<"Failed to install", deps[Len(Pips)]>>))

\* C21: whatever the configuration and the observer do, when
\* install_dependencies_with_callback has ended it has issued the installer
\* invocations that install_dependencies issues and has ended as it ends.
C21_ObserverNeverInfluences == InstallEnded("callback") => AsSilentInstall

\* the flag of an include_data_dirs entry: an entry with "=" is passed on as it
\* is, an entry without is both source and destination
DataDirFlag(entry) ==
    "--include-data-dir=" \o
        (IF "=" \in Range(entry) THEN Spell(entry) ELSE Spell(entry) \o "=" \o Spell(entry))

\* the entries of include_data_dirs whose source exists; nothing in a run of
\* SpecArgs makes or removes a source or the icon
PresentDataDirs ==
    SelectSeq(include_data_dirs(config).v,
              LAMBDA entry : Spell(parse_data_dir(entry).source_path) \in fs)

\* the icon is configured and exists
IconPresent == "icon_file" \in DOMAIN config.v /\ config.v["icon_file"] = Str(IconFile)
               /\ IconFile \in fs

\* C22: the command line of every backend invocation is the interpreter, the
\* fixed flags, the output and metadata flags, then every nuitka_extra_args entry
\* in document order, one flag per include_packages entry, one flag per
\* include_data_dirs entry whose source exists and none for the others, one flag
\* per plugin, the icon flag if and only if an icon is configured and exists, and
\* the entry point last.
C22_BackendArguments ==
    \A n \in 1..Len(Nuitkas) :
        LET args == Nuitkas[n].arg
            meta == windows_metadata(config).v
            extra == nuitka_extra_args(config).v
            packages == include_packages(config).v
            plugins == nuitka_plugins(config).v
            e == 15 + Len(extra)
            p == e + Len(packages)
            d == p + Len(PresentDataDirs)
            g == d + Len(plugins)
            i == g + (IF IconPresent THEN 1 ELSE 0)
        IN
        /\ Len(args) = i + 1
        /\ SubSeq(args, 1, 8) = <<python_exe, "-m", "nuitka", "--standalone", "--onefile",
                                  "--assume-yes-for-downloads", "--remove-output",
                                  "--no-pyi-file">>
        /\ args[9] = "--output-filename=" \o OutputFile
        /\ SubSeq(args, 10, 15) = <<"--product-name=" \o meta["product_name"],
                                    "--file-description=" \o meta["file_description"],
                                    "--product-version=" \o meta["product_version"],
                                    "--file-version=" \o meta["file_version"],
                                    "--copyright=" \o meta["copyright"],
                                    "--company-name=" \o meta["company_name"]>>
        /\ \A k \in 1..Len(extra) : args[15 + k] = extra[k]
        /\ \A k \in 1..Len(packages) : args[e + k] = "--include-package=" \o packages[k]
        /\ \A k \in 1..Len(PresentDataDirs) : args[p + k] = DataDirFlag(PresentDataDirs[k])
        /\ \A k \in 1..Len(plugins) : args[d + k] = "--plugin-enable=" \o plugins[k]
        /\ IconPresent => args[i] = "--windows-icon-from-ico=" \o IconFile
        /\ ~IconPresent => \A k \in 1..Len(args) : args[k] # "--windows-icon-from-ico=" \o IconFile
        /\ args[i + 1] = MainFile

\* the backend was run for a document with two data directories, of which only the
\* second exists, two extra arguments, two packages and an icon that exists
C22_Witness ==
    /\ Len(Nuitkas) = 1
    /\ Len(include_data_dirs(config).v) = 2
    /\ PresentDataDirs = <<include_data_dirs(config).v[2]>>
    /\ include_data_dirs(config).v[1] = <<"a", "=", "b">>
    /\ nuitka_extra_args(config).v = <<"--jobs=1", "--lto=no">>
    /\ include_packages(config).v = <<"pkg", "lib">>
    /\ IconPresent
    /\ Len(Nuitkas[1].arg) = 15 + 2 + 2 + 1 + 3 + 1 + 1

\* an include_data_dirs entry whose source does not exist; nothing in a run of
\* SpecPreflight makes or removes a source, the icon or the entry point
DataDirMissing ==
    \E k \in 1..Len(include_data_dirs(config).v) :
        Spell(parse_data_dir(include_data_dirs(config).v[k]).source_path) \notin fs

\* the configured icon does not exist
IconMissing ==
    /\ "icon_file" \in DOMAIN config.v
    /\ config.v["icon_file"] = Str(IconFile)
    /\ IconFile \notin fs

\* C23: a failure of build() is an interruption, the failure of the process
\* started last, a missing entry point or a missing output, never a missing data
\* directory; whereas `run`, when a data directory, the configured icon or the entry point is
\* missing, reports the validation failure and exits with status 1 without a
\* scratch directory or an external process.
C23_MissingDataDir ==
    /\ (mode = "build" /\ config # Unset /\ exc # NoException) =>
            \/ exc = KeyboardInterrupt
            \/ /\ procLog # <<>>
               /\ Last(procLog).out = "fail"
               /\ exc.type = "RuntimeError"
            \/ /\ MainFile \notin fs
               /\ exc = Exception("FileNotFoundError", <<"Main file not found", MainFile>>)
            \/ /\ Nuitkas # <<>>
               /\ Last(procLog).out = "ok"
               /\ OutputFile \notin AfterToolchain
               /\ exc = Exception("RuntimeError", <<"Output file not created">>)
    /\ (mode = "run" /\ config # Unset
            /\ (DataDirMissing \/ IconMissing \/ MainFile \notin fs)) =>
            /\ pc = "done"
            /\ exitStatus = "exit1"
            /\ narration = {"Validation failed"}
            /\ NoSideEffect

\* build() has returned after a backend that was run without the flag of the one
\* data directory declared, whose source does not exist
C23_Witness ==
    /\ BuildEnded
    /\ exitStatus = "returned"
    /\ Len(include_data_dirs(config).v) = 1
    /\ DataDirMissing
    /\ Len(Nuitkas) = 1
    /\ Last(procLog).out = "ok"
    /\ \A k \in 1..Len(Nuitkas[1].arg) :
            Nuitkas[1].arg[k] # DataDirFlag(include_data_dirs(config).v[1])

====
